---- MODULE Spec2Model ----
(***************************************************************************)
(* Model of vbb_backend/program/models.py: the Slot overlap check of       *)
(* Slot.save, the foreign keys between Program, School, Classroom,         *)
(* Computer and Slot, and the object permission predicates.                *)
(*                                                                         *)
(* Time: a DateTimeField value is an integer number of ticks since         *)
(* DEAFULT_INIT_DATE (Monday 2000-01-03 00:00 UTC); a day is TicksPerDay   *)
(* ticks, a week DaysPerWeek days.                                         *)
(***************************************************************************)
EXTENDS Integers, FiniteSets, TLC

VARIABLES slots, nextPk, pc, inst, computers, programs, schools, classrooms

vars == <<slots, nextPk, pc, inst, computers, programs, schools, classrooms>>

orgVars == <<computers, programs, schools, classrooms>>

(* ------------------------------ bounds -------------------------------- *)

\* Creations that pass the overlap query (primary keys 1..MaxSlots).
MaxSlots == 2

\* Time points 0..MaxTick of week 0 are offered as inputs.
MaxTick == 2

\* Weeks 0..MaxWeek after DEAFULT_INIT_DATE are offered as inputs.
MaxWeek == 1

\* Resolution of the clock: ticks per day (2 = half days).
TicksPerDay == 2

\* Largest max_students / assigned_students offered as an input.
MaxStudents == 2

(* ----------------------------- constants ------------------------------ *)

DaysPerWeek == 7

WeekLen == DaysPerWeek * TicksPerDay

NULL == "NULL"

\* An empty table.
Empty == [x \in {} |-> NULL]

\* Two request handlers (workers) that may run at the same time.
Handlers == {"h1", "h2"}

ComputerIds == {"c1", "c2"}

ProgramIds == {"p1", "p2"}

SchoolIds == {"s1"}

ClassroomIds == {"k1"}

\* users.User rows; Superusers are those with is_superuser = True.
Users == {"root", "ann", "bob"}

Superusers == {"root"}

\* AnonymousUser: is_superuser is False and it equals no User row.
Anonymous == "anonymous"

Week0Times == 0..MaxTick

\* The ticks of the Mondays of weeks 0..MaxWeek.
Times == {w * WeekLen + k : w \in 0..MaxWeek, k \in 0..(TicksPerDay - 1)}

(* ------------------------------- Slot --------------------------------- *)

\* A Slot row (the fields the claims read); defaults as declared.
SlotRow(c, s, e, m, a, f) ==
    [computer |-> c, schedule_start |-> s, schedule_end |-> e,
     max_students |-> m, assigned_students |-> a, is_student_assigned |-> f]

\* An in-memory Slot instance: its fields and its primary key (0 = None).
Instance(pk, c, s, e, m, a, f) ==
    [pk |-> pk, computer |-> c, schedule_start |-> s, schedule_end |-> e,
     max_students |-> m, assigned_students |-> a, is_student_assigned |-> f]

NoInst == [pk |-> -1]

RowOf(obj) ==
    SlotRow(obj.computer, obj.schedule_start, obj.schedule_end,
            obj.max_students, obj.assigned_students, obj.is_student_assigned)

\* Slot.start_day_of_the_week / end_day_of_the_week: date().weekday().
start_day_of_the_week(row) == (row.schedule_start \div TicksPerDay) % DaysPerWeek

end_day_of_the_week(row) == (row.schedule_end \div TicksPerDay) % DaysPerWeek

\* Slot.start_hour, start_minute / end_hour, end_minute: the time of day.
start_time_of_day(row) == row.schedule_start % TicksPerDay

end_time_of_day(row) == row.schedule_end % TicksPerDay

\* The filter with schedule_end__gte / schedule_start__lte.
FilterMatchInclusive(row, obj) ==
    /\ row.computer = obj.computer
    /\ row.schedule_end >= obj.schedule_start
    /\ row.schedule_start <= obj.schedule_end

\* The filter of Slot.save: computer=self.computer (None matches NULL rows),
\* schedule_end__gt=self.schedule_start, schedule_start__lt=self.schedule_end.
FilterMatch(row, obj) ==
    /\ row.computer = obj.computer
    /\ row.schedule_end > obj.schedule_start
    /\ row.schedule_start < obj.schedule_end

\* Slot.objects.filter(...).exists(): the query runs over every stored row,
\* the row of obj itself included.
ConflictFound(obj) == \E pk \in DOMAIN slots : FilterMatch(slots[pk], obj)

\* The foreign key constraint of Slot.computer: NULL or an existing Computer.
ComputerFkOk(obj) == obj.computer = NULL \/ obj.computer \in DOMAIN computers

\* super().save(): UPDATE the row of obj.pk, INSERT when there is none
\* (a new instance gets the next primary key).
SavedPk(obj) == IF obj.pk = 0 THEN nextPk ELSE obj.pk

Stored(obj) ==
    [pk \in DOMAIN slots \cup {SavedPk(obj)} |->
        IF pk = SavedPk(obj) THEN RowOf(obj) ELSE slots[pk]]

(* --------------------------- Slot operations -------------------------- *)

\* Slot.save with super().save() ahead of the raise.
SaveCheckWriteFirst(h, obj) ==
    /\ pc[h] = "idle"
    /\ ConflictFound(obj) \/ obj.pk # 0 \/ nextPk <= MaxSlots
    /\ IF ConflictFound(obj)
         THEN /\ pc' = [pc EXCEPT ![h] = "conflict"]
              /\ slots' = Stored(obj)
              /\ nextPk' = IF obj.pk = 0 THEN nextPk + 1 ELSE nextPk
         ELSE /\ pc' = [pc EXCEPT ![h] = "checked"]
              /\ UNCHANGED <<slots, nextPk>>
    /\ inst' = [inst EXCEPT ![h] = obj]
    /\ UNCHANGED orgVars

\* Slot.save, first half: the overlap query; raises ValidationError
\* {"schedule": "Conflict Found"} before anything is written.
SaveCheck(h, obj) ==
    /\ pc[h] = "idle"
    /\ ConflictFound(obj) \/ obj.pk # 0 \/ nextPk <= MaxSlots
    /\ IF ConflictFound(obj)
         THEN pc' = [pc EXCEPT ![h] = "conflict"]
         ELSE pc' = [pc EXCEPT ![h] = "checked"]
    /\ inst' = [inst EXCEPT ![h] = obj]
    /\ UNCHANGED <<slots, nextPk, orgVars>>

\* Slot.save, second half: return super().save(*args, **kwargs).
SaveWrite(h) ==
    /\ pc[h] = "checked"
    /\ IF ComputerFkOk(inst[h])
         THEN /\ slots' = Stored(inst[h])
              /\ nextPk' = IF inst[h].pk = 0 THEN nextPk + 1 ELSE nextPk
              /\ pc' = [pc EXCEPT ![h] = "saved"]
         ELSE /\ pc' = [pc EXCEPT ![h] = "integrity"]
              /\ UNCHANGED <<slots, nextPk>>
    /\ inst' = [inst EXCEPT ![h] = NoInst]
    /\ UNCHANGED orgVars

\* The handler answers the request and takes the next one.
Return(h) ==
    /\ pc[h] \in {"conflict", "saved", "integrity"}
    /\ pc' = [pc EXCEPT ![h] = "idle"]
    /\ inst' = [inst EXCEPT ![h] = NoInst]
    /\ UNCHANGED <<slots, nextPk, orgVars>>

\* deleteSlot: the row is removed.
DeleteSlot(pk) ==
    /\ pk \in DOMAIN slots
    /\ slots' = [q \in DOMAIN slots \ {pk} |-> slots[q]]
    /\ UNCHANGED <<nextPk, pc, inst, orgVars>>

(* ------------------------- capacity operations ------------------------ *)

\* assignStudent: fails when assigned_students = max_students; otherwise
\* increments assigned_students and sets is_student_assigned.
AssignStudent(pk) ==
    /\ pk \in DOMAIN slots
    /\ slots[pk].assigned_students # slots[pk].max_students
    /\ slots[pk].assigned_students < MaxStudents
    /\ slots' = [slots EXCEPT
                   ![pk].assigned_students = @ + 1,
                   ![pk].is_student_assigned = TRUE]
    /\ UNCHANGED <<nextPk, pc, inst, orgVars>>

\* unassignStudent: fails when assigned_students = 0; otherwise decrements
\* and sets is_student_assigned = (assigned_students > 0).
UnassignStudent(pk) ==
    /\ pk \in DOMAIN slots
    /\ slots[pk].assigned_students # 0
    /\ slots' = [slots EXCEPT
                   ![pk].assigned_students = @ - 1,
                   ![pk].is_student_assigned = (slots[pk].assigned_students - 1 > 0)]
    /\ UNCHANGED <<nextPk, pc, inst, orgVars>>

(* ----------------- Program, School, Classroom, Computer --------------- *)

\* Program(program_director=d).save()
CreateProgram(p, d) ==
    /\ p \notin DOMAIN programs
    /\ programs' = [q \in DOMAIN programs \cup {p} |->
                       IF q = p THEN d ELSE programs[q]]
    /\ UNCHANGED <<slots, nextPk, pc, inst, computers, schools, classrooms>>

\* Program.delete(): Computer.program is PROTECT, School.program is SET_NULL.
DeleteProgram(p) ==
    /\ p \in DOMAIN programs
    /\ \A c \in DOMAIN computers : computers[c] # p
    /\ programs' = [q \in DOMAIN programs \ {p} |-> programs[q]]
    /\ schools' = [s \in DOMAIN schools |->
                      IF schools[s] = p THEN NULL ELSE schools[s]]
    /\ UNCHANGED <<slots, nextPk, pc, inst, computers, classrooms>>

\* School(program=p).save(); program is nullable.
CreateSchool(s, p) ==
    /\ s \notin DOMAIN schools
    /\ p = NULL \/ p \in DOMAIN programs
    /\ schools' = [q \in DOMAIN schools \cup {s} |->
                      IF q = s THEN p ELSE schools[q]]
    /\ UNCHANGED <<slots, nextPk, pc, inst, computers, programs, classrooms>>

\* School.delete(): Classroom.school is SET_NULL.
DeleteSchool(s) ==
    /\ s \in DOMAIN schools
    /\ schools' = [q \in DOMAIN schools \ {s} |-> schools[q]]
    /\ classrooms' = [k \in DOMAIN classrooms |->
                         IF classrooms[k] = s THEN NULL ELSE classrooms[k]]
    /\ UNCHANGED <<slots, nextPk, pc, inst, computers, programs>>

\* Classroom(school=s).save(); school is nullable.
CreateClassroom(k, s) ==
    /\ k \notin DOMAIN classrooms
    /\ s = NULL \/ s \in DOMAIN schools
    /\ classrooms' = [q \in DOMAIN classrooms \cup {k} |->
                         IF q = k THEN s ELSE classrooms[q]]
    /\ UNCHANGED <<slots, nextPk, pc, inst, computers, programs, schools>>

\* Classroom.delete(): nothing refers to a Classroom here.
DeleteClassroom(k) ==
    /\ k \in DOMAIN classrooms
    /\ classrooms' = [q \in DOMAIN classrooms \ {k} |-> classrooms[q]]
    /\ UNCHANGED <<slots, nextPk, pc, inst, computers, programs, schools>>

\* Computer(program=p).save(); program is not nullable.
CreateComputer(c, p) ==
    /\ c \notin DOMAIN computers
    /\ p \in DOMAIN programs
    /\ computers' = [q \in DOMAIN computers \cup {c} |->
                        IF q = c THEN p ELSE computers[q]]
    /\ UNCHANGED <<slots, nextPk, pc, inst, programs, schools, classrooms>>

\* Computer.delete() without the PROTECT of Slot.computer.
DeleteComputerUnprotected(c) ==
    /\ c \in DOMAIN computers
    /\ computers' = [q \in DOMAIN computers \ {c} |-> computers[q]]
    /\ UNCHANGED <<slots, nextPk, pc, inst, programs, schools, classrooms>>

\* Computer.delete(): Slot.computer is on_delete=PROTECT, so the delete is
\* refused while a Slot row refers to the computer.
DeleteComputer(c) ==
    /\ c \in DOMAIN computers
    /\ \A pk \in DOMAIN slots : slots[pk].computer # c
    /\ computers' = [q \in DOMAIN computers \ {c} |-> computers[q]]
    /\ UNCHANGED <<slots, nextPk, pc, inst, programs, schools, classrooms>>

(* ----------------------------- permissions ---------------------------- *)

\* request.user.is_superuser
is_superuser(u) == u \in Superusers

\* request.user == <program>.program_director, where the director may be
\* None: a user (or AnonymousUser) never equals None.
IsDirector(u, p) == programs[p] # NULL /\ u = programs[p]

\* What a permission method gives: a bool, or the AttributeError it raises.
Bool(b) == IF b THEN "True" ELSE "False"

\* Program.has_object_write_permission
ProgramWrite(p, u) == Bool(is_superuser(u) \/ IsDirector(u, p))

\* School.has_object_write_permission: self.program.program_director raises
\* AttributeError when self.program is None (after the `or`).
SchoolWrite(s, u) ==
    IF is_superuser(u) THEN "True"
    ELSE IF schools[s] = NULL THEN "AttributeError"
    ELSE Bool(IsDirector(u, schools[s]))

\* Classroom.has_object_write_permission: self.school.program.program_director
ClassroomWrite(k, u) ==
    IF is_superuser(u) THEN "True"
    ELSE IF classrooms[k] = NULL THEN "AttributeError"
    ELSE IF schools[classrooms[k]] = NULL THEN "AttributeError"
    ELSE Bool(IsDirector(u, schools[classrooms[k]]))

\* Computer.has_object_write_permission: self.program.program_director
ComputerWrite(c, u) == Bool(is_superuser(u) \/ IsDirector(u, computers[c]))

\* Slot.has_object_write_permission, with the superuser test left out.
SlotWriteNoSuperuser(pk, u) ==
    IF slots[pk].computer = NULL THEN "AttributeError"
    ELSE Bool(IsDirector(u, computers[slots[pk].computer]))

\* Slot.has_object_write_permission: self.computer.program.program_director
SlotWrite(pk, u) ==
    IF is_superuser(u) THEN "True"
    ELSE IF slots[pk].computer = NULL THEN "AttributeError"
    ELSE Bool(IsDirector(u, computers[slots[pk].computer]))

Kinds == {"Program", "School", "Classroom", "Computer", "Slot"}

\* The stored objects of a model class.
Objects(kind) ==
    CASE kind = "Program" -> DOMAIN programs
      [] kind = "School" -> DOMAIN schools
      [] kind = "Classroom" -> DOMAIN classrooms
      [] kind = "Computer" -> DOMAIN computers
      [] kind = "Slot" -> DOMAIN slots

has_object_write_permission(kind, o, u) ==
    CASE kind = "Program" -> ProgramWrite(o, u)
      [] kind = "School" -> SchoolWrite(o, u)
      [] kind = "Classroom" -> ClassroomWrite(o, u)
      [] kind = "Computer" -> ComputerWrite(o, u)
      [] kind = "Slot" -> SlotWrite(o, u)

\* return self.has_object_write_permission(request)
has_object_update_permission(kind, o, u) == has_object_write_permission(kind, o, u)

\* return self.has_object_write_permission(request)
has_object_read_permission(kind, o, u) == has_object_write_permission(kind, o, u)

(* --------------------------- specifications --------------------------- *)

\* New instances with the declared defaults max_students=1,
\* assigned_students=0, is_student_assigned=False.
NewSlots(T) ==
    {Instance(0, c, s, e, 1, 0, FALSE) : c \in ComputerIds, s \in T, e \in T}

\* A loaded instance of the stored row pk with its computer and schedule set anew.
LoadedSlots(pk, T) ==
    {Instance(pk, c, s, e, slots[pk].max_students, slots[pk].assigned_students,
              slots[pk].is_student_assigned) : c \in ComputerIds, s \in T, e \in T}

\* New instances with max_students and assigned_students given by the caller.
SizedSlots ==
    {Instance(0, c, 0, 1, m, a, FALSE) :
        c \in ComputerIds, m \in -1..MaxStudents, a \in 0..MaxStudents}

\* New instances of the first tick of the week, the computer possibly None.
TickSlots ==
    {Instance(0, c, 0, 1, 1, 0, FALSE) : c \in ComputerIds \cup {NULL}}

\* Two computers of program p1, no school and no classroom.
InitOrg ==
    /\ programs = [p \in ProgramIds |-> NULL]
    /\ computers = [c \in ComputerIds |-> "p1"]
    /\ schools = Empty
    /\ classrooms = Empty

InitSlots ==
    /\ slots = Empty
    /\ nextPk = 1
    /\ pc = [h \in Handlers |-> "idle"]
    /\ inst = [h \in Handlers |-> NoInst]

Init == InitSlots /\ InitOrg

\* Requests are handled one at a time.
Serial(h) == \A g \in Handlers \ {h} : pc[g] = "idle"

Create(h) == \E obj \in NewSlots(Week0Times) : SaveCheck(h, obj)

Delete == \E pk \in 1..MaxSlots : DeleteSlot(pk)

\* Handlers run at the same time: a save of one may fall between the
\* query and the write of another.
Next ==
    \/ \E h \in Handlers : Create(h)
    \/ \E h \in Handlers : SaveWrite(h)
    \/ \E h \in Handlers : Return(h)
    \/ Delete

Spec == Init /\ [][Next]_vars

\* One request at a time: creations and deletions.
SerialNext ==
    \/ \E h \in Handlers : Serial(h) /\ Create(h)
    \/ \E h \in Handlers : SaveWrite(h)
    \/ \E h \in Handlers : Return(h)
    \/ Delete

SerialSpec == Init /\ [][SerialNext]_vars

CreateAnyWeek(h) == \E obj \in NewSlots(Times) : SaveCheck(h, obj)

Resave(h) ==
    \E pk \in DOMAIN slots : \E obj \in LoadedSlots(pk, Times) : SaveCheck(h, obj)

\* One request at a time: creations in any week, saves of loaded slots, deletions.
EditNext ==
    \/ \E h \in Handlers : Serial(h) /\ CreateAnyWeek(h)
    \/ \E h \in Handlers : Serial(h) /\ Resave(h)
    \/ \E h \in Handlers : SaveWrite(h)
    \/ \E h \in Handlers : Return(h)
    \/ Delete

EditSpec == Init /\ [][EditNext]_vars

CreateSized(h) == \E obj \in SizedSlots : SaveCheck(h, obj)

\* One request at a time: creations with any capacity, student assignment.
CapNext ==
    \/ \E h \in Handlers : Serial(h) /\ CreateSized(h)
    \/ \E h \in Handlers : SaveWrite(h)
    \/ \E h \in Handlers : Return(h)
    \/ \E pk \in 1..MaxSlots : AssignStudent(pk)
    \/ \E pk \in 1..MaxSlots : UnassignStudent(pk)
    \/ Delete

CapSpec == Init /\ [][CapNext]_vars

CreateTick(h) == \E obj \in TickSlots : SaveCheck(h, obj)

\* The tables of the program app: rows come and go, slots are saved while
\* computers are created and deleted.
OrgNext ==
    \/ \E p \in ProgramIds, d \in Users \cup {NULL} : CreateProgram(p, d)
    \/ \E p \in ProgramIds : DeleteProgram(p)
    \/ \E s \in SchoolIds, p \in ProgramIds \cup {NULL} : CreateSchool(s, p)
    \/ \E s \in SchoolIds : DeleteSchool(s)
    \/ \E k \in ClassroomIds, s \in SchoolIds \cup {NULL} : CreateClassroom(k, s)
    \/ \E k \in ClassroomIds : DeleteClassroom(k)
    \/ \E c \in ComputerIds, p \in ProgramIds : CreateComputer(c, p)
    \/ \E c \in ComputerIds : DeleteComputer(c)
    \/ \E h \in Handlers : Serial(h) /\ CreateTick(h)
    \/ \E h \in Handlers : SaveWrite(h)
    \/ \E h \in Handlers : Return(h)
    \/ Delete

OrgInit ==
    /\ slots = Empty
    /\ nextPk = 1
    /\ pc = [h \in Handlers |-> "idle"]
    /\ inst = [h \in Handlers |-> NoInst]
    /\ programs = Empty
    /\ computers = Empty
    /\ schools = Empty
    /\ classrooms = Empty

OrgSpec == OrgInit /\ [][OrgNext]_vars

(* ------------------------------- claims ------------------------------- *)

\* The overlap rule of Invariant 1, on two rows or instances.
Overlap(a, b) ==
    a.schedule_end > b.schedule_start /\ a.schedule_start < b.schedule_end

ValidRange(x) == x.schedule_start < x.schedule_end

\* A handler has just run the overlap query of a save.
Queried(h) == pc[h] = "idle" /\ pc'[h] \in {"checked", "conflict"}

\* C1: in every reachable state no two distinct stored slots on the same
\* computer overlap.
C1_NoStoredOverlap ==
    \A p \in DOMAIN slots : \A q \in DOMAIN slots :
        (p # q /\ slots[p].computer # NULL /\ slots[p].computer = slots[q].computer)
            => ~Overlap(slots[p], slots[q])

\* C2: the overlap check and the insert are one atomic step: a creation is
\* written only if, at the moment of the write, no stored slot on its
\* computer overlaps it (no creation passes on a stale snapshot).
C2_CheckAndInsertAtomic ==
    [][\A h \in Handlers :
          (pc[h] = "checked" /\ pc'[h] = "saved")
              => ~\E pk \in DOMAIN slots :
                     /\ slots[pk].computer = inst[h].computer
                     /\ Overlap(slots[pk], inst[h])]_vars

\* C3: creating a slot with start < end on a computer fails with the
\* conflict error exactly when a stored slot on that computer has
\* end > new.start and start < new.end, and is stored otherwise.
C3_ConflictIffOverlap ==
    [][\A h \in Handlers :
          /\ (Queried(h) /\ ValidRange(inst'[h]))
                 => (pc'[h] = "conflict" <=>
                        \E pk \in DOMAIN slots :
                            /\ slots[pk].computer = inst'[h].computer
                            /\ slots[pk].schedule_end > inst'[h].schedule_start
                            /\ slots[pk].schedule_start < inst'[h].schedule_end)
          /\ (pc[h] = "checked" /\ pc'[h] # "checked")
                 => /\ pc'[h] = "saved"
                    /\ DOMAIN slots' = DOMAIN slots \cup {nextPk}
                    /\ slots'[nextPk].computer = inst[h].computer
                    /\ slots'[nextPk].schedule_start = inst[h].schedule_start
                    /\ slots'[nextPk].schedule_end = inst[h].schedule_end]_vars

\* A creation was refused while two touching slots, each accepted, are
\* stored on its computer.
C3_Witness ==
    \E h \in Handlers :
        /\ pc[h] = "conflict"
        /\ ValidRange(inst[h])
        /\ \E p \in DOMAIN slots : \E q \in DOMAIN slots :
              /\ slots[p].computer = inst[h].computer
              /\ slots[q].computer = inst[h].computer
              /\ ValidRange(slots[p]) /\ ValidRange(slots[q])
              /\ slots[p].schedule_end = slots[q].schedule_start

\* A range Invariant 3 allows: start before end, less than 24 hours long.
ProperRange(x) ==
    /\ x.schedule_start < x.schedule_end
    /\ x.schedule_end - x.schedule_start < TicksPerDay

\* The weekday and time-of-day positions a slot covers, week after week.
WeekWindow(x) ==
    {(start_day_of_the_week(x) * TicksPerDay + start_time_of_day(x) + i) % WeekLen :
        i \in 0..(x.schedule_end - x.schedule_start - 1)}

\* C4: creating a slot fails with the conflict error whenever a stored
\* slot on the same computer covers a common weekday and time of day,
\* whatever the weeks of the two timestamps.
C4_WeeklyOverlapConflicts ==
    [][\A h \in Handlers :
          (/\ Queried(h)
           /\ inst'[h].pk = 0
           /\ ProperRange(inst'[h])
           /\ \E pk \in DOMAIN slots :
                 /\ slots[pk].computer = inst'[h].computer
                 /\ ProperRange(slots[pk])
                 /\ WeekWindow(slots[pk]) \cap WeekWindow(inst'[h]) # {})
              => pc'[h] = "conflict"]_vars

\* C5: every stored slot has schedule_start < schedule_end and a span of
\* less than 24 hours.
C5_StoredRangesValid ==
    \A pk \in DOMAIN slots :
        /\ slots[pk].schedule_start < slots[pk].schedule_end
        /\ slots[pk].schedule_end - slots[pk].schedule_start < TicksPerDay

\* C6: when a save ends with the conflict error the stored slots are
\* what they were before the call.
C6_ConflictLeavesStore ==
    [][\A h \in Handlers :
          (pc[h] # "conflict" /\ pc'[h] = "conflict") => slots' = slots]_vars

\* A save has ended with the conflict error on a store that holds slots.
C6_Witness ==
    \E h \in Handlers : pc[h] = "conflict" /\ DOMAIN slots # {}

\* C7: every stored slot has 0 <= assigned_students <= max_students.
C7_AssignedWithinCapacity ==
    \A pk \in DOMAIN slots :
        /\ 0 <= slots[pk].assigned_students
        /\ slots[pk].assigned_students <= slots[pk].max_students

\* C8: every stored slot's computer is null or a computer that exists, and
\* a computer is deleted only while no slot refers to it, its deletion
\* leaving the slots as they were.
C8_SlotComputerExists ==
    /\ [](\A pk \in DOMAIN slots :
            slots[pk].computer = NULL \/ slots[pk].computer \in DOMAIN computers)
    /\ [][\A c \in DOMAIN computers :
            c \notin DOMAIN computers'
                => /\ \A pk \in DOMAIN slots : slots[pk].computer # c
                   /\ slots' = slots]_vars

\* A slot refers to a computer, another computer is gone, and a save was
\* refused because its computer had been deleted.
C8_Witness ==
    /\ \E pk \in DOMAIN slots : slots[pk].computer \in DOMAIN computers
    /\ \E c \in ComputerIds : c \notin DOMAIN computers
    /\ \E h \in Handlers : pc[h] = "integrity"

\* The program that owns an object, through the ownership chain.
OwningProgram(kind, o) ==
    CASE kind = "Program" -> o
      [] kind = "School" -> schools[o]
      [] kind = "Classroom" ->
            IF classrooms[o] = NULL THEN NULL ELSE schools[classrooms[o]]
      [] kind = "Computer" -> computers[o]
      [] kind = "Slot" ->
            IF slots[o].computer = NULL THEN NULL ELSE computers[slots[o].computer]

Authorized(kind, o, u) ==
    \/ u \in Superusers
    \/ /\ OwningProgram(kind, o) # NULL
       /\ programs[OwningProgram(kind, o)] = u

\* C9: has_object_write_permission is true exactly for a superuser and for
\* the director of the owning program; update and read permission give
\* what write permission gives.
C9_PermissionIsOwnership ==
    \A kind \in Kinds : \A o \in Objects(kind) : \A u \in Users \cup {Anonymous} :
        /\ (has_object_write_permission(kind, o, u) = "True") <=> Authorized(kind, o, u)
        /\ has_object_update_permission(kind, o, u) = has_object_write_permission(kind, o, u)
        /\ has_object_read_permission(kind, o, u) = has_object_write_permission(kind, o, u)

\* A slot whose program is directed by ann, a school without program, and a
\* classroom of that school.
C9_Witness ==
    /\ \E pk \in DOMAIN slots :
          /\ has_object_write_permission("Slot", pk, "ann") = "True"
          /\ has_object_write_permission("Slot", pk, "bob") = "False"
          /\ has_object_write_permission("Slot", pk, "root") = "True"
    /\ \E s \in DOMAIN schools :
          has_object_write_permission("School", s, "bob") = "AttributeError"
    /\ \E k \in DOMAIN classrooms : classrooms[k] # NULL

\* C10: a save of a stored slot with start < end and its computer unchanged
\* always ends with the conflict error, and no stored row ever changes.
C10_StoredSlotImmutable ==
    [][/\ \A h \in Handlers :
            (/\ Queried(h)
             /\ inst'[h].pk \in DOMAIN slots
             /\ ValidRange(slots[inst'[h].pk])
             /\ ValidRange(inst'[h])
             /\ inst'[h].computer = slots[inst'[h].pk].computer)
                => pc'[h] = "conflict"
       /\ \A pk \in DOMAIN slots :
            pk \in DOMAIN slots' => slots'[pk] = slots[pk]]_vars

====
